---- MODULE Spec2Model ----
(***************************************************************************)
(* Model of the permit service: backend/app/api/permits.py (the module     *)
(* level list `permits`, create_permit, list_permits) and the request      *)
(* schema backend/app/schemas/permit.py (PermitCreate, Permit).            *)
(*                                                                         *)
(* Strings that the code parses or formats (the JSON text of county_id,    *)
(* the text of a UUID) are sequences of one-character strings, so that     *)
(* parsing and formatting are computed.  Strings the code only copies or   *)
(* sets (status, user_id) are TLA+ strings.                                *)
(***************************************************************************)
EXTENDS Integers, Sequences, FiniteSets, TLC

\* ---------------------------------------------------------------- bounds
\* Number of create calls a run of the model accepts.
MaxPermits == 2
\* Last instant of the wall clock; the clock stops advancing there.
MaxClock == 1
\* Number of handler threads of the server's thread pool.
NumThreads == 2

\* Size of the space uuid4 draws its random bits from: one value per call.
NumIds == MaxPermits

\* The list calls counted between two creates.
MaxLists == 2

Threads == 1..NumThreads

VARIABLES
    permits,     \* permits.py:8, the module-level list
    generated,   \* the random numbers uuid4 has drawn in this process run
    now,         \* the last instant datetime.now() returned
    request,     \* the HTTP request served last
    response,    \* the HTTP response to it
    before,      \* the contents of permits when that request arrived
    returned,    \* the records returned by the create calls so far, in order
    listed,      \* the list calls since the last create and what they returned
    frames,      \* per thread: the frame of its create_permit call
    results      \* the records the completed calls on threads returned, in order

vars == <<permits, generated, now, request, response, before, returned,
          listed, frames, results>>

\* ------------------------------------------------------------ JSON values
JInt(n)  == [kind |-> "int", val |-> n]
JStr(s)  == [kind |-> "str", val |-> s]
JNull    == [kind |-> "null"]
JArray   == [kind |-> "array"]
JMissing == [kind |-> "missing"]

Roofing == <<"r", "o", "o", "f">>
Deck    == <<"d", "e", "c", "k">>

\* The request bodies clients send: three that parse (two of them to the same
\* PermitCreate) and one for each way a field fails to parse.
Body(c, ty) == [county_id |-> c, type |-> ty]

RawBodies == {Body(JInt(12), JStr(Roofing)),
              Body(JStr(<<"1", "2">>), JStr(Roofing)),
              Body(JStr(<<"-", "7">>), JStr(Deck)),
              Body(JStr(<<"x">>), JStr(Roofing)),
              Body(JStr(<<>>), JStr(Deck)),
              Body(JNull, JStr(Roofing)),
              Body(JMissing, JStr(Deck)),
              Body(JInt(12), JArray),
              Body(JInt(12), JMissing)}

\* --------------------------------------------- schemas/permit.py: parsing
Digits == <<"0", "1", "2", "3", "4", "5", "6", "7", "8", "9">>

IsDigit(c) == \E d \in 1..10 : Digits[d] = c

DigitVal(c) == (CHOOSE d \in 1..10 : Digits[d] = c) - 1

\* A decimal numeral: an optional sign, then one digit or more.
IsNumeral(s) ==
    LET body == IF Len(s) > 0 /\ s[1] \in {"-", "+"} THEN Tail(s) ELSE s
    IN  Len(body) > 0 /\ \A i \in 1..Len(body) : IsDigit(body[i])

RECURSIVE NatOf(_)
NatOf(s) == IF Len(s) = 0 THEN 0
            ELSE 10 * NatOf(SubSeq(s, 1, Len(s) - 1)) + DigitVal(s[Len(s)])

ParseInt(s) == IF s[1] = "-" THEN 0 - NatOf(Tail(s))
               ELSE IF s[1] = "+" THEN NatOf(Tail(s))
               ELSE NatOf(s)

\* county_id: int  --  an integer, or text that reads as one.
IntField_ok(v) == \/ v.kind = "int"
                  \/ v.kind = "str" /\ IsNumeral(v.val)

IntField(v) == IF v.kind = "int" THEN v.val ELSE ParseInt(v.val)

\* type: str
StrField_ok(v) == v.kind = "str"

StrField(v) == v.val

\* Whether a request body parses as a PermitCreate, and the parsed value.
PermitCreate_ok(raw) == IntField_ok(raw.county_id) /\ StrField_ok(raw.type)

PermitCreate(raw) == [county_id |-> IntField(raw.county_id),
                      type      |-> StrField(raw.type)]

\* ------------------------------------------------------ uuid4 and its text
HexDigits == <<"0", "1", "2", "3", "4", "5", "6", "7",
               "8", "9", "a", "b", "c", "d", "e", "f">>

RECURSIVE Hex(_, _)
\* n as w hexadecimal digits, zero-padded
Hex(n, w) == IF w = 0 THEN <<>>
             ELSE Hex(n \div 16, w - 1) \o <<HexDigits[(n % 16) + 1]>>

\* uuid4(): random bits, the version nibble set to 4 and the two variant
\* bits to binary 10.  The value is its 32 hexadecimal digits.
UUID4(r) == [Hex(r, 32) EXCEPT ![13] = "4", ![17] = "8"]

\* str(UUID): 8-4-4-4-12
UuidStr(u) == SubSeq(u, 1, 8) \o <<"-">> \o SubSeq(u, 9, 12) \o <<"-">> \o
              SubSeq(u, 13, 16) \o <<"-">> \o SubSeq(u, 17, 20) \o <<"-">> \o
              SubSeq(u, 21, 32)

\* The random numbers a call of uuid4 can draw.  The 122 random bits of two
\* calls are taken to differ: a draw never repeats an earlier one.
uuid4(gen) == {r \in 0..(NumIds - 1) : r \notin gen}

\* The instants a call of datetime.now() can return when the last call
\* returned t: the clock has stood still or has advanced.
datetime_now(t) == {u \in t..(t + 1) : u <= MaxClock}

\* Variants of new_permit: the id of a module-level constant, a status and a
\* county_id that depend on the county submitted.
new_permit_fixed_id(permit, id, t1, t2) ==
    [id                 |-> UuidStr(UUID4(0)),
     user_id            |-> "demo_user",
     type               |-> permit.type,
     county_id          |-> permit.county_id,
     status             |-> "application",
     current_step       |-> "application",
     submitted_at       |-> t1,
     updated_at         |-> t2,
     offline_submission |-> FALSE]

new_permit_status_by_county(permit, id, t1, t2) ==
    [id                 |-> id,
     user_id            |-> "demo_user",
     type               |-> permit.type,
     county_id          |-> permit.county_id,
     status             |-> IF permit.county_id < 0 THEN "rejected"
                            ELSE "application",
     current_step       |-> "application",
     submitted_at       |-> t1,
     updated_at         |-> t2,
     offline_submission |-> FALSE]

new_permit_abs_county(permit, id, t1, t2) ==
    [id                 |-> id,
     user_id            |-> "demo_user",
     type               |-> permit.type,
     county_id          |-> IF permit.county_id < 0 THEN 0 - permit.county_id
                            ELSE permit.county_id,
     status             |-> "application",
     current_step       |-> "application",
     submitted_at       |-> t1,
     updated_at         |-> t2,
     offline_submission |-> FALSE]

\* --------------------------------------------------- permits.py:12-22
new_permit(permit, id, t1, t2) ==
    [id                 |-> id,
     user_id            |-> "demo_user",
     type               |-> permit.type,
     county_id          |-> permit.county_id,
     status             |-> "application",
     current_step       |-> "application",
     submitted_at       |-> t1,
     updated_at         |-> t2,
     offline_submission |-> FALSE]

\* Variant of list_append: list.insert(0, x)
list_prepend(s, x) == <<x>> \o s

\* permits.py:23, list.append
list_append(s, x) == Append(s, x)

\* ----------------------------------------------------------- responses
NoBody == <<>>
Ok(kind, body)   == [code |-> 200, kind |-> kind, body |-> body]
Unprocessable    == [code |-> 422, kind |-> "error", body |-> NoBody]
NoResponse       == [code |-> 0, kind |-> "none", body |-> NoBody]
NoRequest        == [method |-> "NONE", body |-> NoBody]

NotListed        == [n |-> 0, body |-> NoBody]

IdleFrame == [pc |-> "idle"]

Min(a, b) == IF a < b THEN a ELSE b

Init ==
    /\ permits = <<>>
    /\ generated = {}
    /\ now = 0
    /\ request = NoRequest
    /\ response = NoResponse
    /\ before = <<>>
    /\ returned = <<>>
    /\ listed = NotListed
    /\ frames = [t \in Threads |-> IdleFrame]
    /\ results = <<>>

Reverse(s) == [i \in 1..Len(s) |-> s[Len(s) + 1 - i]]

SamePayload(a, b) == a.county_id = b.county_id /\ a.type = b.type

\* Variant of create_permit: a payload already in the store is answered with
\* the stored record and nothing is appended.
create_permit_dedup(permit) ==
    IF \E i \in 1..Len(permits) : SamePayload(permits[i], permit)
    THEN LET rec == permits[CHOOSE i \in 1..Len(permits) :
                               SamePayload(permits[i], permit)]
         IN  /\ response' = Ok("create", rec)
             /\ returned' = Append(returned, rec)
             /\ listed' = NotListed
             /\ UNCHANGED <<permits, generated, now>>
    ELSE \E r \in uuid4(generated) :
           \E t1 \in datetime_now(now) :
             \E t2 \in datetime_now(t1) :
               LET rec == new_permit(permit, UuidStr(UUID4(r)), t1, t2)
               IN  /\ generated' = generated \cup {r}
                   /\ now' = t2
                   /\ permits' = list_append(permits, rec)
                   /\ response' = Ok("create", rec)
                   /\ returned' = Append(returned, rec)
                   /\ listed' = NotListed

\* ------------------------------------------- one request after another
\* permits.py:11-24, the body of create_permit
create_permit(permit) ==
    \E r \in uuid4(generated) :
      \E t1 \in datetime_now(now) :
        \E t2 \in datetime_now(t1) :
          LET rec == new_permit(permit, UuidStr(UUID4(r)), t1, t2)
          IN  /\ generated' = generated \cup {r}
              /\ now' = t2
              /\ permits' = list_append(permits, rec)
              /\ response' = Ok("create", rec)
              /\ returned' = Append(returned, rec)
              /\ listed' = NotListed

\* Variant of post_permits: the fields of PermitCreate have defaults, a field
\* that does not parse takes its default and the handler runs.
post_permits_defaults(raw) ==
    /\ Len(returned) < MaxPermits
    /\ request' = [method |-> "POST", body |-> raw]
    /\ before' = permits
    /\ create_permit(IF PermitCreate_ok(raw) THEN PermitCreate(raw)
                     ELSE [county_id |-> 0, type |-> <<>>])
    /\ UNCHANGED <<frames, results>>

\* POST /permits: the body is parsed as a PermitCreate before the handler
\* runs; a body that does not parse is answered 422 and the handler is not
\* called.
post_permits(raw) ==
    /\ PermitCreate_ok(raw) => Len(returned) < MaxPermits
    /\ request' = [method |-> "POST", body |-> raw]
    /\ before' = permits
    /\ IF PermitCreate_ok(raw)
       THEN create_permit(PermitCreate(raw))
       ELSE /\ response' = Unprocessable
            /\ UNCHANGED <<permits, generated, now, returned, listed>>
    /\ UNCHANGED <<frames, results>>

\* Variants of list_permits: the list is sorted in place, newest first; the
\* response is cut to one page.
list_permits_sorted ==
    /\ request' = [method |-> "GET", body |-> NoBody]
    /\ before' = permits
    /\ permits' = Reverse(permits)
    /\ response' = Ok("list", Reverse(permits))
    /\ listed' = [n |-> Min(listed.n + 1, MaxLists), body |-> Reverse(permits)]
    /\ UNCHANGED <<generated, now, returned, frames, results>>

list_permits_page ==
    /\ request' = [method |-> "GET", body |-> NoBody]
    /\ before' = permits
    /\ response' = Ok("list", SubSeq(permits, 1, Min(Len(permits), 1)))
    /\ listed' = [n |-> Min(listed.n + 1, MaxLists),
                  body |-> SubSeq(permits, 1, Min(Len(permits), 1))]
    /\ UNCHANGED <<permits, generated, now, returned, frames, results>>

\* permits.py:26-28
list_permits ==
    /\ request' = [method |-> "GET", body |-> NoBody]
    /\ before' = permits
    /\ response' = Ok("list", permits)
    /\ listed' = [n |-> Min(listed.n + 1, MaxLists), body |-> permits]
    /\ UNCHANGED <<permits, generated, now, returned, frames, results>>

Next ==
    \/ \E raw \in RawBodies : post_permits(raw)
    \/ list_permits

Spec == Init /\ [][Next]_vars

\* ------------------------------------------- create calls on several threads
\* The server runs create_permit on the threads of a pool, one call per
\* request; a call's statements interleave with those of the other calls.
\* frames[t].pc is the line of permits.py thread t executes next.
Payloads == {PermitCreate(raw) : raw \in {b \in RawBodies : PermitCreate_ok(b)}}

InFlight == {t \in Threads : frames[t].pc \in {"l13", "l19", "l20", "l23"}}

AllIdle == \A t \in Threads : frames[t].pc = "idle"

\* permits.py:11, the handler is entered with the parsed body
thread_call(t, permit) ==
    /\ frames[t].pc = "idle"
    /\ Len(permits) + Cardinality(InFlight) < MaxPermits
    /\ frames' = [frames EXCEPT ![t] = [pc |-> "l13", permit |-> permit]]
    /\ UNCHANGED <<permits, generated, now, request, response, before,
                   returned, listed, results>>

\* permits.py:13, id=str(uuid4())
thread_uuid4(t) ==
    /\ frames[t].pc = "l13"
    /\ \E r \in uuid4(generated) :
         /\ generated' = generated \cup {r}
         /\ frames' = [frames EXCEPT ![t] =
                [pc |-> "l19", permit |-> frames[t].permit,
                 id |-> UuidStr(UUID4(r))]]
    /\ UNCHANGED <<permits, now, request, response, before, returned,
                   listed, results>>

\* permits.py:19, submitted_at=datetime.now()
thread_submitted_at(t) ==
    /\ frames[t].pc = "l19"
    /\ \E t1 \in datetime_now(now) :
         /\ now' = t1
         /\ frames' = [frames EXCEPT ![t] =
                [pc |-> "l20", permit |-> frames[t].permit,
                 id |-> frames[t].id, submitted_at |-> t1]]
    /\ UNCHANGED <<permits, generated, request, response, before, returned,
                   listed, results>>

\* permits.py:20-22, updated_at=datetime.now() and the Permit is built
thread_updated_at(t) ==
    /\ frames[t].pc = "l20"
    /\ \E t2 \in datetime_now(now) :
         /\ now' = t2
         /\ frames' = [frames EXCEPT ![t] =
                [pc |-> "l23",
                 new_permit |-> new_permit(frames[t].permit, frames[t].id,
                                           frames[t].submitted_at, t2)]]
    /\ UNCHANGED <<permits, generated, request, response, before, returned,
                   listed, results>>

\* Variant of thread_append: the append is given up when another thread is
\* about to append.
thread_append_trylock(t) ==
    /\ frames[t].pc = "l23"
    /\ permits' = IF \E u \in Threads \ {t} : frames[u].pc = "l23"
                  THEN permits
                  ELSE list_append(permits, frames[t].new_permit)
    /\ frames' = [frames EXCEPT ![t] =
           [pc |-> "l24", new_permit |-> frames[t].new_permit]]
    /\ UNCHANGED <<generated, now, request, response, before, returned,
                   listed, results>>

\* permits.py:23, permits.append(new_permit): one step, the interpreter
\* does not switch threads inside list.append
thread_append(t) ==
    /\ frames[t].pc = "l23"
    /\ permits' = list_append(permits, frames[t].new_permit)
    /\ frames' = [frames EXCEPT ![t] =
           [pc |-> "l24", new_permit |-> frames[t].new_permit]]
    /\ UNCHANGED <<generated, now, request, response, before, returned,
                   listed, results>>

\* permits.py:24, return new_permit
thread_return(t) ==
    /\ frames[t].pc = "l24"
    /\ results' = Append(results, frames[t].new_permit)
    /\ frames' = [frames EXCEPT ![t] = IdleFrame]
    /\ UNCHANGED <<permits, generated, now, request, response, before,
                   returned, listed>>

NextThreads ==
    \E t \in Threads :
        \/ \E permit \in Payloads : thread_call(t, permit)
        \/ thread_uuid4(t)
        \/ thread_submitted_at(t)
        \/ thread_updated_at(t)
        \/ thread_append(t)
        \/ thread_return(t)

SpecThreads == Init /\ [][NextThreads]_vars

\* ================================================================ claims
Range(s) == {s[i] : i \in DOMAIN s}

IsPrefix(s, t) == Len(s) <= Len(t) /\ SubSeq(t, 1, Len(s)) = s

\* The records of the response served last: the record of a create, the
\* records of a list.
ResponseRecords == IF response.kind = "create" THEN {response.body}
                   ELSE IF response.kind = "list" THEN Range(response.body)
                   ELSE {}

\* C1: after N create calls issued one after another, a list call returns
\* exactly N records and the i-th of them is the record the i-th create call
\* returned.
C1_ListReturnsCreatesInOrder ==
    response.kind = "list" =>
        /\ Len(response.body) = Len(returned)
        /\ \A i \in 1..Len(returned) : response.body[i] = returned[i]

C1_Witness ==
    /\ response.kind = "list"
    /\ Len(returned) >= 2
    /\ returned[1] # returned[2]

\* C2: no two records of the store have the same id, and the id a create call
\* returns is non-empty and differs from every id generated earlier in the run.
C2_IdsUnique ==
    /\ \A i, j \in 1..Len(permits) : i # j => permits[i].id # permits[j].id
    /\ response.kind = "create" =>
        /\ Len(response.body.id) > 0
        /\ \A i \in 1..(Len(returned) - 1) : returned[i].id # response.body.id

C2_Witness ==
    /\ response.kind = "create"
    /\ Len(permits) >= 2
    /\ Len(returned) >= 2

\* C3: every record returned by create or by list has submitted_at equal to
\* updated_at.
C3_TimestampsEqual ==
    \A p \in ResponseRecords \cup Range(permits) :
        p.submitted_at = p.updated_at

\* C4: every record of the store and every record a create returns has status
\* "application", current_step "application", offline_submission false and
\* user_id "demo_user", whatever county_id and type were submitted.
C4_FixedDefaults ==
    \A p \in ResponseRecords \cup Range(permits) :
        /\ p.status = "application"
        /\ p.current_step = "application"
        /\ p.offline_submission = FALSE
        /\ p.user_id = "demo_user"

C4_Witness ==
    /\ response.kind = "create"
    /\ \E i, j \in 1..Len(permits) :
        /\ permits[i].county_id < 0
        /\ permits[j].county_id > 0
        /\ permits[i].type # permits[j].type

\* The county_id and type a body that parses stands for, read off the body:
\* an integer is itself, the texts "12" and "-7" are 12 and -7.
SubmittedCounty(raw) ==
    IF raw.county_id.kind = "int" THEN raw.county_id.val
    ELSE IF raw.county_id.val = <<"1", "2">> THEN 12
    ELSE -7

\* C5: a create call with a valid payload returns a record whose county_id and
\* type are the submitted ones, and that record is the one the call appended
\* as the last element of the store.
C5_CreateReturnsAppended ==
    response.kind = "create" =>
        /\ response.body.county_id = SubmittedCounty(request.body)
        /\ response.body.type = request.body.type.val
        /\ Len(permits) = Len(before) + 1
        /\ permits[Len(permits)] = response.body
        /\ SubSeq(permits, 1, Len(before)) = before

C5_Witness ==
    /\ response.kind = "create"
    /\ request.body.county_id.kind = "str"
    /\ response.body.county_id < 0
    /\ Len(before) >= 1

\* C6: create is not idempotent: the same payload submitted twice gives two
\* records with two distinct ids, the store has grown by one record per call
\* and both records are in the store after the second call.
C6_CreateNotIdempotent ==
    /\ Len(permits) = Len(returned)
    /\ \A i, j \in 1..Len(returned) :
        (i < j /\ SamePayload(returned[i], returned[j])) =>
            /\ returned[i].id # returned[j].id
            /\ returned[i] # returned[j]
            /\ permits[i] = returned[i]
            /\ permits[j] = returned[j]

C6_Witness ==
    /\ response.kind = "create"
    /\ Len(returned) >= 2
    /\ SamePayload(returned[1], returned[2])

\* The bodies that are malformed: county_id is missing, null or text that is
\* no integer, or type is missing or no string.
MalformedBodies == {Body(JStr(<<"x">>), JStr(Roofing)),
                    Body(JStr(<<>>), JStr(Deck)),
                    Body(JNull, JStr(Roofing)),
                    Body(JMissing, JStr(Deck)),
                    Body(JInt(12), JArray),
                    Body(JInt(12), JMissing)}

Rejected == request.method = "POST" /\ request.body \in MalformedBodies

\* C7: a create request with a malformed payload is answered with a client
\* error, appends no record and leaves the store as it was, and a list call
\* that follows returns as many records as the store held before the request.
C7_MalformedRejected ==
    /\ [](Rejected => /\ response.code = 422
                      /\ permits = before
                      /\ \A i \in 1..Len(permits) : permits[i] \in Range(returned))
    /\ [][(Rejected /\ response'.kind = "list") =>
              Len(response'.body) = Len(before)]_vars

C7_Witness ==
    /\ Rejected
    /\ Len(before) >= 1
    /\ request.body.county_id.kind = "str"

\* C8: the store is append-only and its records are immutable: its contents
\* before a step are a prefix of its contents after the step, and a record
\* enters it only as the record a create call returns.
C8_AppendOnly ==
    [][/\ IsPrefix(permits, permits')
       /\ permits' # permits =>
            /\ response'.kind = "create"
            /\ permits' = Append(permits, response'.body)]_vars

C8_Witness ==
    /\ Len(permits) >= 2
    /\ response.kind = "list"
    /\ listed.n >= 2

\* C9: when create calls run on several threads, interleaved in any order,
\* each call appends exactly one record: once all calls have completed the
\* store holds one record per call, none lost and none duplicated.
C9_OneRecordPerCall ==
    AllIdle =>
        /\ Len(permits) = Len(results)
        /\ \A i \in 1..Len(results) :
             Cardinality({j \in 1..Len(permits) : permits[j] = results[i]}) = 1
        /\ \A j \in 1..Len(permits) : permits[j] \in Range(results)

\* Two calls have overlapped: the one that appended first returned last.
C9_Witness ==
    /\ AllIdle
    /\ Len(results) >= 2
    /\ permits[1] = results[2]
    /\ permits[1].submitted_at > permits[2].submitted_at

\* C10: a list call takes no input, returns the whole store as it is and
\* leaves the store unchanged, so two list calls with no create between them
\* return the same sequence.
C10_ListIsPure ==
    /\ [](response.kind = "list" =>
            /\ request.body = NoBody
            /\ response.body = before
            /\ permits = before)
    /\ [][(response'.kind = "list" /\ listed.n >= 1) =>
              response'.body = listed.body]_vars

C10_Witness ==
    /\ response.kind = "list"
    /\ listed.n >= 2
    /\ Len(response.body) >= 2
    /\ request.method = "GET"

====
